---- MODULE Spec2Model ----
(***************************************************************************)
(* A model of apple_wallet_generator/models.py: the pass data model, its   *)
(* JSON projection (json_dict / PassHandler / json.dumps), the manifest    *)
(* builder, the signer and the archiver of Pass.create.                    *)
(*                                                                         *)
(* Python values are records tagged by `kind`; a dict is the sequence of   *)
(* its entries in insertion order, the order json.dumps emits them in.     *)
(* pydantic.BaseModel and cryptography are libraries outside the           *)
(* repository: an entity class is modelled as a plain attribute holder     *)
(* (what its __init__ assigns is what it holds), the signer as a function  *)
(* of the manifest bytes that raises on malformed identity material.       *)
(***************************************************************************)
EXTENDS Integers, Sequences, FiniteSets, TLC

VARIABLES
    pass,        \* the Pass object's public attributes
    files,       \* Pass._files: name -> bytes, in insertion order
    hashes,      \* Pass._hashes: name -> hex digest, in insertion order
    pc,          \* position inside Pass.create
    pass_json,   \* create's local pass_json
    manifest,    \* create's local manifest
    signature,   \* create's local signature
    zip_file,    \* the output sink: the members written and whether it was closed
    raised,      \* the exception that ended the last create, if any
    prev,        \* the members of the previous archive of the unchanged Pass
    proj,        \* the last call of Pass.json_dict: the Pass it ran on and its result
    nAssign,     \* number of attribute assignments made on the Pass
    info,        \* a PassInformation object
    calls,       \* the add*Field calls made on info, in order
    infoJson     \* the last call of info.json_dict: the calls before it and its result

vars == <<pass, files, hashes, pc, pass_json, manifest, signature, zip_file,
          raised, prev, proj, nAssign, info, calls, infoJson>>

(***************************************************************************)
(* Bounds                                                                  *)
(***************************************************************************)
MaxData == 2
MaxFiles == 2
MaxAssign == 2
MaxCalls == 3

(***************************************************************************)
(* Python values                                                           *)
(***************************************************************************)
None == [kind |-> "none"]
Str(s) == [kind |-> "str", s |-> s]
PyInt(n) == [kind |-> "int", n |-> n]
Float(x) == [kind |-> "float", x |-> x]
Bool(t) == [kind |-> "bool", t |-> t]
List(elems) == [kind |-> "list", elems |-> elems]
Dict(items) == [kind |-> "dict", items |-> items]
Obj(cls, attrs) == [kind |-> "obj", cls |-> cls, attrs |-> attrs]
Bytes(raw) == [kind |-> "bytes", raw |-> raw]

Entry(k, v) == [k |-> k, v |-> v]

\* Python truth value testing, as `if x:` applies it
Truthy(v) ==
    CASE v.kind = "none" -> FALSE
      [] v.kind = "str" -> v.s # ""
      [] v.kind = "int" -> v.n # 0
      [] v.kind = "float" -> v.x # 0
      [] v.kind = "bool" -> v.t
      [] v.kind = "list" -> v.elems # <<>>
      [] v.kind = "dict" -> v.items # <<>>
      [] OTHER -> TRUE

\* dict operations on an insertion-ordered entry sequence
HasKey(d, k) == \E i \in 1..Len(d) : d[i].k = k
IndexOf(d, k) == CHOOSE i \in 1..Len(d) : d[i].k = k
Get(d, k) == d[IndexOf(d, k)].v
KeysOf(d) == {d[i].k : i \in 1..Len(d)}

\* d[k] = v: an existing key keeps its position
DictSetItem(d, k, v) ==
    IF HasKey(d, k)
    THEN [d EXCEPT ![IndexOf(d, k)] = Entry(k, v)]
    ELSE Append(d, Entry(k, v))

RECURSIVE DictUpdate(_, _)
\* d.update(e)
DictUpdate(d, e) ==
    IF e = <<>> THEN d
    ELSE DictUpdate(DictSetItem(d, Head(e).k, Head(e).v), Tail(e))

\* the outcome of a call: a returned dict, or a raised exception
Ok(d) == [ok |-> TRUE, d |-> d, exc |-> "", on |-> "", attr |-> ""]
Raise(exc, on, attr) == [ok |-> FALSE, d |-> <<>>, exc |-> exc, on |-> on, attr |-> attr]

\* obj.name on an object holding attrs
HasAttr(o, name) == HasKey(o.attrs, name)
GetAttr(o, name) == Get(o.attrs, name)

(***************************************************************************)
(* Enumerations                                                            *)
(***************************************************************************)
Alignment_LEFT == "PKTextAlignmentLeft"
BarcodeFormat_PDF417 == "PKBarcodeFormatPDF417"
BarcodeFormat_QR == "PKBarcodeFormatQR"
BarcodeFormat_AZTEC == "PKBarcodeFormatAztec"
BarcodeFormat_CODE128 == "PKBarcodeFormatCode128"
BarcodeFormats ==
    {BarcodeFormat_PDF417, BarcodeFormat_QR, BarcodeFormat_AZTEC, BarcodeFormat_CODE128}
TransitType_AIR == "PKTransitTypeAir"

(***************************************************************************)
(* Field, Barcode, Location, IBeacon                                       *)
(***************************************************************************)
Field(key, value, label) ==
    Obj("Field", << Entry("key", Str(key)), Entry("value", Str(value)),
                    Entry("label", Str(label)), Entry("changeMessage", Str("")),
                    Entry("textAlignment", Str(Alignment_LEFT)) >>)

Field_json_dict(self) == self.attrs

Barcode(message, format, altText) ==
    Obj("Barcode",
        << Entry("format", Str(format)), Entry("message", Str(message)),
           Entry("messageEncoding", Str("iso-8859-1")) >>
        \o (IF altText # "" THEN << Entry("altText", Str(altText)) >> ELSE <<>>))

Barcode_json_dict(self) == self.attrs

Location(latitude, longitude) ==
    Obj("Location", << Entry("latitude", Float(latitude)), Entry("longitude", Float(longitude)),
                       Entry("altitude", Float(0)), Entry("distance", None),
                       Entry("relevantText", Str("")) >>)

Location_json_dict(self) == self.attrs

IBeacon(proximityuuid, major, minor) ==
    Obj("IBeacon", << Entry("proximityUUID", Str(proximityuuid)), Entry("major", PyInt(major)),
                      Entry("minor", PyInt(minor)), Entry("relevantText", Str("")) >>)

IBeacon_json_dict(self) == self.attrs

(***************************************************************************)
(* PassInformation and its five variants                                   *)
(***************************************************************************)
PassInformation(cls, jsonname) ==
    [kind |-> "obj", cls |-> cls, jsonname |-> jsonname,
     headerFields |-> <<>>, primaryFields |-> <<>>, secondaryFields |-> <<>>,
     backFields |-> <<>>, auxiliaryFields |-> <<>>]

BoardingPass ==
    [kind |-> "obj", cls |-> "BoardingPass", jsonname |-> "boardingPass",
     headerFields |-> <<>>, primaryFields |-> <<>>, secondaryFields |-> <<>>,
     backFields |-> <<>>, auxiliaryFields |-> <<>>, transitType |-> Str(TransitType_AIR)]
Coupon == PassInformation("Coupon", "coupon")
EventTicket == PassInformation("EventTicket", "eventTicket")
Generic == PassInformation("Generic", "generic")
StoreCard == PassInformation("StoreCard", "storeCard")

Buckets ==
    <<"headerFields", "primaryFields", "secondaryFields", "backFields", "auxiliaryFields">>

addHeaderField(self, key, value, label) ==
    [self EXCEPT !.headerFields = Append(@, Field(key, value, label))]

addPrimaryFieldFirst(self, key, value, label) ==
    [self EXCEPT !.primaryFields = <<Field(key, value, label)>> \o @]

addPrimaryField(self, key, value, label) ==
    [self EXCEPT !.primaryFields = Append(@, Field(key, value, label))]

addSecondaryField(self, key, value, label) ==
    [self EXCEPT !.secondaryFields = Append(@, Field(key, value, label))]

addBackField(self, key, value, label) ==
    [self EXCEPT !.backFields = Append(@, Field(key, value, label))]

addAuxiliaryField(self, key, value, label) ==
    [self EXCEPT !.auxiliaryFields = Append(@, Field(key, value, label))]

\* [f.json_dict() for f in fields]
FieldDicts(fields) == List([i \in 1..Len(fields) |-> Dict(Field_json_dict(fields[i]))])

\* if self.<bucket>: d.update({bucket: [...]})
BucketKey(self, d, bucket) ==
    IF self[bucket] # <<>>
    THEN DictUpdate(d, << Entry(bucket, FieldDicts(self[bucket])) >>)
    ELSE d

PassInformation_json_dict(self) ==
    LET d0 == <<>>
        d1 == BucketKey(self, d0, "headerFields")
        d2 == BucketKey(self, d1, "primaryFields")
        d3 == BucketKey(self, d2, "secondaryFields")
        d4 == BucketKey(self, d3, "backFields")
        d5 == BucketKey(self, d4, "auxiliaryFields")
    IN  d5

BoardingPass_json_dict(self) ==
    DictUpdate(PassInformation_json_dict(self), << Entry("transitType", self.transitType) >>)

\* the json_dict the object's class resolves to
Info_json_dict(self) ==
    IF self.cls = "BoardingPass" THEN BoardingPass_json_dict(self)
    ELSE PassInformation_json_dict(self)

(***************************************************************************)
(* Pass                                                                    *)
(***************************************************************************)
Pass(passInformation, passTypeIdentifier, organizationName, teamIdentifier) ==
    [teamIdentifier |-> Str(teamIdentifier),
     passTypeIdentifier |-> Str(passTypeIdentifier),
     organizationName |-> Str(organizationName),
     serialNumber |-> Str(""),
     description |-> Str(""),
     formatVersion |-> PyInt(1),
     backgroundColor |-> None, foregroundColor |-> None, labelColor |-> None,
     logoText |-> None, barcode |-> None, barcodes |-> None,
     suppressStripShine |-> Bool(FALSE),
     webServiceURL |-> None, authenticationToken |-> None,
     locations |-> None, ibeacons |-> None, relevantDate |-> None,
     associatedStoreIdentifiers |-> None, appLaunchURL |-> None, userInfo |-> None,
     expirationDate |-> None, voided |-> None,
     passInformation |-> passInformation]

\* d.<name> = value, d a dict: a dict instance takes no attributes
DictSetAttr(s, name, value) ==
    IF s.ok THEN Raise("AttributeError", "dict", name) ELSE s

\* lines 410-419: the unconditional keys and the variant under its jsonname
RequiredKeysNoVariant(self) ==
    Ok(<< Entry("description", self.description),
          Entry("formatVersion", self.formatVersion),
          Entry("organizationName", self.organizationName),
          Entry("passTypeIdentifier", self.passTypeIdentifier),
          Entry("serialNumber", self.serialNumber),
          Entry("teamIdentifier", self.teamIdentifier),
          Entry("suppressStripShine", self.suppressStripShine) >>
       \o (IF self.passInformation = None THEN <<>>
           ELSE << Entry(self.passInformation.jsonname,
                         Dict(Info_json_dict(self.passInformation))) >>))

RequiredKeys(self) ==
    IF self.passInformation = None
    THEN Raise("AttributeError", "NoneType", "jsonname")
    ELSE Ok(<< Entry("description", self.description),
               Entry("formatVersion", self.formatVersion),
               Entry("organizationName", self.organizationName),
               Entry("passTypeIdentifier", self.passTypeIdentifier),
               Entry("serialNumber", self.serialNumber),
               Entry("teamIdentifier", self.teamIdentifier),
               Entry("suppressStripShine", self.suppressStripShine),
               Entry(self.passInformation.jsonname,
                     Dict(Info_json_dict(self.passInformation))) >>)

original_formats == {BarcodeFormat_PDF417, BarcodeFormat_QR, BarcodeFormat_AZTEC}

\* lines 421-434: the legacy barcode and the barcodes array
BarcodeKeys(self, s) ==
    IF ~s.ok \/ ~Truthy(self.barcode) THEN s
    ELSE LET newBarcodes == List(<< Dict(Barcode_json_dict(self.barcode)) >>)
             replace == GetAttr(self.barcode, "format").s \notin original_formats
         IN  IF replace /\ ~HasAttr(self.barcode, "altText")
             THEN Raise("AttributeError", "Barcode", "altText")
             ELSE LET legacyBarcode ==
                          IF replace
                          THEN Barcode(GetAttr(self.barcode, "message").s,
                                       BarcodeFormat_PDF417,
                                       GetAttr(self.barcode, "altText").s)
                          ELSE self.barcode
                      s1 == DictSetAttr(s, "barcode", legacyBarcode)
                  IN  DictSetAttr(s1, "barcodes", newBarcodes)

\* the attributes lines 436-459 test, in the order they test them
OptionalOrder ==
    <<"relevantDate", "backgroundColor", "foregroundColor", "labelColor", "logoText",
      "locations", "ibeacons", "userInfo", "associatedStoreIdentifiers", "appLaunchURL",
      "expirationDate", "voided">>

\* if self.<name>: d.<name> = self.<name>   (voided: d.voided = True)
OptionalKey(self, s, name) ==
    IF s.ok /\ Truthy(self[name])
    THEN DictSetAttr(s, name, IF name = "voided" THEN Bool(TRUE) ELSE self[name])
    ELSE s

RECURSIVE OptionalKeysFrom(_, _, _)
OptionalKeysFrom(self, s, i) ==
    IF i > Len(OptionalOrder) THEN s
    ELSE OptionalKeysFrom(self, OptionalKey(self, s, OptionalOrder[i]), i + 1)

\* lines 436-459
OptionalKeys(self, s) == OptionalKeysFrom(self, s, 1)

WebServiceKeysEither(self, s) ==
    IF s.ok /\ (Truthy(self.webServiceURL) \/ Truthy(self.authenticationToken))
    THEN Ok(DictUpdate(s.d, << Entry("webServiceURL", self.webServiceURL),
                               Entry("authenticationToken", self.authenticationToken) >>))
    ELSE s

\* lines 460-466
WebServiceKeys(self, s) ==
    IF s.ok /\ Truthy(self.webServiceURL)
    THEN Ok(DictUpdate(s.d, << Entry("webServiceURL", self.webServiceURL),
                               Entry("authenticationToken", self.authenticationToken) >>))
    ELSE s

Pass_json_dict(self) ==
    WebServiceKeys(self, OptionalKeys(self, BarcodeKeys(self, RequiredKeys(self))))

(***************************************************************************)
(* PassHandler and json.dumps                                              *)
(***************************************************************************)
\* obj.json_dict() of an object json.dumps cannot serialise itself
PassHandler(obj) ==
    CASE obj.cls = "Field" -> Dict(Field_json_dict(obj))
      [] obj.cls = "Barcode" -> Dict(Barcode_json_dict(obj))
      [] obj.cls = "Location" -> Dict(Location_json_dict(obj))
      [] obj.cls = "IBeacon" -> Dict(IBeacon_json_dict(obj))
      [] OTHER -> Dict(Info_json_dict(obj))

\* JSON text, as the tree of its tokens
JNull == [j |-> "null"]
JString(s) == [j |-> "string", s |-> s]
JNumber(n) == [j |-> "number", n |-> n]
JBool(t) == [j |-> "bool", t |-> t]
JHex(digest) == [j |-> "string", hexdigest |-> digest]
JArray(elems) == [j |-> "array", elems |-> elems]
JObject(members) == [j |-> "object", members |-> members]

RECURSIVE dumps(_)
\* json.dumps(v, default=PassHandler)
dumps(v) ==
    CASE v.kind = "none" -> JNull
      [] v.kind = "str" -> JString(v.s)
      [] v.kind = "int" -> JNumber(v.n)
      [] v.kind = "float" -> JNumber(v.x)
      [] v.kind = "bool" -> JBool(v.t)
      [] v.kind = "hex" -> JHex(v.digest)
      [] v.kind = "list" -> JArray([i \in 1..Len(v.elems) |-> dumps(v.elems[i])])
      [] v.kind = "dict" ->
            JObject([i \in 1..Len(v.items) |->
                        [name |-> v.items[i].k, value |-> dumps(v.items[i].v)]])
      [] OTHER -> dumps(PassHandler(v))

\* json.loads of an object: its members, in order
Member(o, name) ==
    o.members[CHOOSE i \in 1..Len(o.members) : o.members[i].name = name].value
MemberNames(o) == {o.members[i].name : i \in 1..Len(o.members)}


(***************************************************************************)
(* Hashing, encoding, signing, the zip archive                             *)
(***************************************************************************)
Unset == [unset |-> TRUE]
NoExc == Raise("", "", "")

\* text.encode("utf-8")
encode(text) == [kind |-> "bytes", utf8 |-> text]

\* hashlib.sha1(data).hexdigest(): collision-free on the data of the model
sha1_hexdigest(data) == [kind |-> "hex", digest |-> [sha1 |-> data]]

\* ZipFile.writestr(name, data): a str is written as its UTF-8 bytes
IsText(data) == "j" \in DOMAIN data
writestr(members, name, data) ==
    Append(members, [name |-> name, data |-> IF IsText(data) THEN encode(data) ELSE data])

\* Pass.addFile
addFile(name, data) == DictSetItem(files, name, data)

\* Pass._createPassJson: json.dumps(self, default=PassHandler)
createPassJson(self) ==
    LET r == Pass_json_dict(self)
    IN  IF r.ok THEN [ok |-> TRUE, text |-> dumps(Dict(r.d)), exc |-> r]
        ELSE [ok |-> FALSE, text |-> Unset, exc |-> r]

RECURSIVE HashFiles(_, _)
\* for filename, filedata in self._files.items(): self._hashes[filename] = sha1(filedata)
HashFiles(h, fs) ==
    IF fs = <<>> THEN h
    ELSE HashFiles(DictSetItem(h, Head(fs).k, sha1_hexdigest(Head(fs).v)), Tail(fs))

RECURSIVE AppendHashes(_, _)
AppendHashes(h, fs) ==
    IF fs = <<>> THEN h
    ELSE AppendHashes(Append(h, Entry(Head(fs).k, sha1_hexdigest(Head(fs).v))), Tail(fs))

createManifestAppending(h, text, fs) ==
    AppendHashes(Append(h, Entry("pass.json", sha1_hexdigest(encode(text)))), fs)

\* Pass._createManifest: the new self._hashes
createManifest(h, text, fs) ==
    HashFiles(DictSetItem(h, "pass.json", sha1_hexdigest(encode(text))), fs)

\* Pass._createSignatureCrypto: DER bytes of a detached signature over the manifest
createSignatureCrypto(text) == [kind |-> "bytes", pkcs7 |-> encode(text)]

RECURSIVE WriteFiles(_, _)
WriteFiles(members, fs) ==
    IF fs = <<>> THEN members
    ELSE WriteFiles(writestr(members, Head(fs).k, Head(fs).v), Tail(fs))

\* Pass._createZip: the members in the order they are written
createZip(text, man, sig, fs) ==
    WriteFiles(writestr(writestr(writestr(<<>>, "signature", sig),
                                 "manifest.json", man),
                        "pass.json", text),
               fs)

(***************************************************************************)
(* The pipeline: addFile and create on one Pass                            *)
(***************************************************************************)
AssetNames == {"icon.png", "logo.png", "pass.json"}
AssetData == {Bytes(n) : n \in 1..MaxData}

aStoreCard == addPrimaryField(StoreCard, "balance", "42", "Balance")
aPass == [Pass(aStoreCard, "pass.com.example", "Example", "TEAM01")
             EXCEPT !.serialNumber = Str("12345")]

\* the Pass objects the pipeline is run on
PipelinePasses ==
    { Pass(None, "pass.com.example", "Example", "TEAM01"),
      aPass,
      [aPass EXCEPT !.webServiceURL = Str("https://example.com/passes")],
      [aPass EXCEPT !.logoText = Str("Example")] }

NoPrev == [set |-> FALSE, pass_json |-> Unset, manifest |-> Unset]
NoProj == [done |-> FALSE, of |-> None, res |-> NoExc]
NoInfoJson == [done |-> FALSE, calls |-> <<>>, d |-> <<>>]
EmptyZip == [members |-> <<>>, closed |-> FALSE]

projVars == <<proj, nAssign>>
infoVars == <<info, calls, infoJson>>
pipeVars == <<files, hashes, pc, pass_json, manifest, signature, zip_file, raised, prev>>

PipeIdle ==
    /\ files = <<>>
    /\ hashes = <<>>
    /\ pc = "idle"
    /\ pass_json = Unset
    /\ manifest = Unset
    /\ signature = Unset
    /\ zip_file = EmptyZip
    /\ raised = NoExc
    /\ prev = NoPrev

Init ==
    /\ pass \in PipelinePasses
    /\ PipeIdle
    /\ proj = NoProj
    /\ nAssign = 0
    /\ info = None
    /\ calls = <<>>
    /\ infoJson = NoInfoJson

\* p.addFile(name, fd), fd.read() = data
AddFile ==
    /\ pc = "idle"
    /\ \E name \in AssetNames, data \in AssetData :
          /\ (HasKey(files, name) \/ Len(files) < MaxFiles)
          /\ files' = addFile(name, data)
    /\ prev' = NoPrev
    /\ UNCHANGED <<pass, hashes, pc, pass_json, manifest, signature, zip_file, raised>>
    /\ UNCHANGED <<projVars, infoVars>>

\* create, line 351
CreatePassJson ==
    /\ pc = "idle"
    /\ LET r == createPassJson(pass)
       IN  IF r.ok
           THEN /\ pass_json' = r.text
                /\ pc' = "manifest"
                /\ raised' = NoExc
           ELSE /\ pass_json' = Unset
                /\ pc' = "raised"
                /\ raised' = r.exc
    /\ UNCHANGED <<pass, files, hashes, manifest, signature, zip_file, prev>>
    /\ UNCHANGED <<projVars, infoVars>>

\* create, line 352
CreateManifest ==
    /\ pc = "manifest"
    /\ hashes' = createManifest(hashes, pass_json, files)
    /\ manifest' = dumps(Dict(hashes'))
    /\ pc' = "sign"
    /\ UNCHANGED <<pass, files, pass_json, signature, zip_file, raised, prev>>
    /\ UNCHANGED <<projVars, infoVars>>

\* create, lines 353-355: the identity material parses, or loading it raises
CreateSignature ==
    /\ pc = "sign"
    /\ \E identity \in {"valid", "malformed"} :
          IF identity = "valid"
          THEN /\ signature' = createSignatureCrypto(manifest)
               /\ pc' = "zip"
               /\ raised' = NoExc
          ELSE /\ signature' = Unset
               /\ pc' = "raised"
               /\ raised' = Raise("ValueError", "identity", "")
    /\ UNCHANGED <<pass, files, hashes, pass_json, manifest, zip_file, prev>>
    /\ UNCHANGED <<projVars, infoVars>>

\* create, lines 356-358: every writestr succeeds and the archive is closed, or
\* the failsAt-th writestr raises and the members before it stay in the sink
CreateZip ==
    /\ pc = "zip"
    /\ LET all == createZip(pass_json, manifest, signature, files)
       IN  \E failsAt \in 0..Len(all) :
              IF failsAt = 0
              THEN /\ zip_file' = [members |-> all, closed |-> TRUE]
                   /\ pc' = "done"
                   /\ raised' = NoExc
              ELSE /\ zip_file' = [members |-> SubSeq(all, 1, failsAt - 1), closed |-> FALSE]
                   /\ pc' = "raised"
                   /\ raised' = Raise("OSError", "writestr", all[failsAt].name)
    /\ UNCHANGED <<pass, files, hashes, pass_json, manifest, signature, prev>>
    /\ UNCHANGED <<projVars, infoVars>>

\* create returns (line 359) or the exception reaches the caller
Return ==
    /\ pc \in {"done", "raised"}
    /\ prev' = IF pc = "done"
               THEN [set |-> TRUE, pass_json |-> pass_json, manifest |-> manifest]
               ELSE prev
    /\ pc' = "idle"
    /\ pass_json' = Unset
    /\ manifest' = Unset
    /\ signature' = Unset
    /\ zip_file' = EmptyZip
    /\ raised' = NoExc
    /\ UNCHANGED <<pass, files, hashes>>
    /\ UNCHANGED <<projVars, infoVars>>

Next ==
    \/ AddFile
    \/ CreatePassJson
    \/ CreateManifest
    \/ CreateSignature
    \/ CreateZip
    \/ Return

Spec == Init /\ [][Next]_vars

(***************************************************************************)
(* The projection: attribute assignments on one Pass, and Pass.json_dict   *)
(***************************************************************************)
AssignableNames ==
    {OptionalOrder[i] : i \in 1..Len(OptionalOrder)}
        \cup {"barcode", "barcodes", "webServiceURL", "authenticationToken"}

\* an empty and a non-empty value of the attribute's type
AssignableValues(name) ==
    CASE name = "barcode" ->
            {Barcode("0123456789", f, a) : f \in BarcodeFormats, a \in {"", "No. 0123456789"}}
      [] name = "barcodes" ->
            {List(<<>>), List(<< Barcode("0123456789", BarcodeFormat_QR, "") >>)}
      [] name = "locations" -> {List(<<>>), List(<< Location(48, 2) >>)}
      [] name = "ibeacons" -> {List(<<>>), List(<< IBeacon("uuid", 1, 2) >>)}
      [] name = "associatedStoreIdentifiers" -> {List(<<>>), List(<< PyInt(375380948) >>)}
      [] name = "userInfo" -> {Dict(<<>>), Dict(<< Entry("member", Str("gold")) >>)}
      [] name = "voided" -> {Bool(FALSE), Bool(TRUE)}
      [] OTHER -> {Str(""), Str(name)}

ProjInit ==
    /\ pass = aPass
    /\ PipeIdle
    /\ proj = NoProj
    /\ nAssign = 0
    /\ info = None
    /\ calls = <<>>
    /\ infoJson = NoInfoJson

\* p.<name> = value
Assign ==
    /\ nAssign < MaxAssign
    /\ \E name \in AssignableNames :
          \E value \in AssignableValues(name) :
             pass' = [pass EXCEPT ![name] = value]
    /\ nAssign' = nAssign + 1
    /\ UNCHANGED <<proj, pipeVars, infoVars>>

\* p.json_dict()
JsonDict ==
    /\ proj' = [done |-> TRUE, of |-> pass, res |-> Pass_json_dict(pass)]
    /\ UNCHANGED <<pass, nAssign, pipeVars, infoVars>>

ProjNext ==
    \/ Assign
    \/ JsonDict

SpecProj == ProjInit /\ [][ProjNext]_vars

(***************************************************************************)
(* The field buckets: add*Field calls on one PassInformation, json_dict    *)
(***************************************************************************)
FieldKeys == {"balance", "points"}

InfoInit ==
    /\ pass = aPass
    /\ PipeIdle
    /\ proj = NoProj
    /\ nAssign = 0
    /\ info \in {BoardingPass, Coupon, EventTicket, Generic, StoreCard}
    /\ calls = <<>>
    /\ infoJson = NoInfoJson

Call(bucket, key, value, label) ==
    [bucket |-> bucket, key |-> key, value |-> value, label |-> label]

AddHeaderField ==
    /\ Len(calls) < MaxCalls
    /\ \E key \in FieldKeys :
          /\ info' = addHeaderField(info, key, "42", "Balance")
          /\ calls' = Append(calls, Call("headerFields", key, "42", "Balance"))
    /\ UNCHANGED <<pass, infoJson, pipeVars, projVars>>

AddPrimaryField ==
    /\ Len(calls) < MaxCalls
    /\ \E key \in FieldKeys :
          /\ info' = addPrimaryField(info, key, "42", "Balance")
          /\ calls' = Append(calls, Call("primaryFields", key, "42", "Balance"))
    /\ UNCHANGED <<pass, infoJson, pipeVars, projVars>>

AddSecondaryField ==
    /\ Len(calls) < MaxCalls
    /\ \E key \in FieldKeys :
          /\ info' = addSecondaryField(info, key, "42", "Balance")
          /\ calls' = Append(calls, Call("secondaryFields", key, "42", "Balance"))
    /\ UNCHANGED <<pass, infoJson, pipeVars, projVars>>

AddBackField ==
    /\ Len(calls) < MaxCalls
    /\ \E key \in FieldKeys :
          /\ info' = addBackField(info, key, "42", "Balance")
          /\ calls' = Append(calls, Call("backFields", key, "42", "Balance"))
    /\ UNCHANGED <<pass, infoJson, pipeVars, projVars>>

AddAuxiliaryField ==
    /\ Len(calls) < MaxCalls
    /\ \E key \in FieldKeys :
          /\ info' = addAuxiliaryField(info, key, "42", "Balance")
          /\ calls' = Append(calls, Call("auxiliaryFields", key, "42", "Balance"))
    /\ UNCHANGED <<pass, infoJson, pipeVars, projVars>>

\* info.json_dict()
InfoJsonDict ==
    /\ infoJson' = [done |-> TRUE, calls |-> calls, d |-> Info_json_dict(info)]
    /\ UNCHANGED <<pass, info, calls, pipeVars, projVars>>

InfoNext ==
    \/ AddHeaderField
    \/ AddPrimaryField
    \/ AddSecondaryField
    \/ AddBackField
    \/ AddAuxiliaryField
    \/ InfoJsonDict

SpecInfo == InfoInit /\ [][InfoNext]_vars

(***************************************************************************)
(* Claims about the pipeline (Spec)                                        *)
(***************************************************************************)
\* what the archive holds, read back
MemberNamesWritten == [i \in 1..Len(zip_file.members) |-> zip_file.members[i].name]
ArchivedManifest == zip_file.members[2].data.utf8
ArchivedDescriptor == zip_file.members[3].data
NamedMembers(name) == {i \in 1..Len(zip_file.members) : zip_file.members[i].name = name}
ArchiveNames == {"signature", "manifest.json", "pass.json"}

\* C1: after create(), whatever the asset names, manifest.json's "pass.json" value is
\* the hex SHA-1 of the bytes of the archive member named pass.json, which is the
\* projected descriptor.
C1_ManifestDigestOfDescriptor ==
    pc = "done" =>
        /\ Member(ArchivedManifest, "pass.json") = JHex([sha1 |-> ArchivedDescriptor])
        /\ \A i \in NamedMembers("pass.json") :
              zip_file.members[i].data = encode(dumps(Dict(Pass_json_dict(pass).d)))

\* C3: create() on a Pass with passInformation None fails during the projection,
\* before the manifest, signature and archive steps run, and writes nothing to the sink.
C3_NoVariantFailsInProjection ==
    pass.passInformation = None =>
        /\ pc \in {"idle", "raised"}
        /\ pc = "raised" => raised = Raise("AttributeError", "NoneType", "jsonname")
        /\ pass_json = Unset
        /\ hashes = <<>>
        /\ manifest = Unset
        /\ signature = Unset
        /\ zip_file = EmptyZip

C3_Witness ==
    /\ pass.passInformation = None
    /\ pc = "raised"
    /\ files # <<>>

\* C4: in every run of create() the sink is first written after projection, manifest
\* and signature succeeded, and whichever stage fails the sink holds no archive data
\* or a complete archive, never a subset of the members.
C4_NoPartialBundle ==
    /\ zip_file.members # <<>> =>
          (pass_json # Unset /\ manifest # Unset /\ signature # Unset)
    /\ \/ zip_file.members = <<>>
       \/ /\ zip_file.closed
          /\ ArchiveNames \cup KeysOf(files) \subseteq
                {zip_file.members[i].name : i \in 1..Len(zip_file.members)}

\* C7: the archive of the latest create() holds exactly signature, manifest.json,
\* pass.json and one member per asset of the file set, each name once and each asset
\* with the bytes last added, and the manifest's keys are pass.json and the asset
\* names, each asset's value the hex SHA-1 of its bytes.
C7_ArchiveMembersExact ==
    pc = "done" =>
        /\ \A i, j \in 1..Len(zip_file.members) :
              MemberNamesWritten[i] = MemberNamesWritten[j] => i = j
        /\ {MemberNamesWritten[i] : i \in 1..Len(zip_file.members)}
              = ArchiveNames \cup KeysOf(files)
        /\ \A i \in 4..Len(zip_file.members) :
              zip_file.members[i].data = Get(files, MemberNamesWritten[i])
        /\ MemberNames(ArchivedManifest) = {"pass.json"} \cup KeysOf(files)
        /\ \A name \in KeysOf(files) :
              Member(ArchivedManifest, name) = JHex([sha1 |-> Get(files, name)])

\* C8: two create() calls on the same unchanged Pass yield byte-identical pass.json
\* and manifest.json members; what the first run leaves in _hashes does not change
\* the second run's descriptor or manifest.
C8_Deterministic ==
    (prev.set /\ pc = "done") =>
        /\ ArchivedDescriptor = encode(prev.pass_json)
        /\ zip_file.members[2].data = encode(prev.manifest)

C8_Witness ==
    /\ prev.set
    /\ pc = "done"
    /\ Len(files) >= 2
    /\ Len(hashes) >= 2

(***************************************************************************)
(* Claims about the projection (SpecProj)                                  *)
(***************************************************************************)
Projected == proj.done /\ proj.res.ok

\* C2: for any Pass whose legacy barcode is set, json_dict returns a descriptor with
\* a barcode key and a barcodes array whose first entry is the original barcode's
\* projection; the singular barcode keeps the format when it is PDF417, QR or Aztec
\* and is PDF417 with the same message and altText when it is Code128.
C2_BarcodeDualEmission ==
    (proj.done /\ Truthy(proj.of.barcode)) =>
        /\ proj.res.ok
        /\ HasKey(proj.res.d, "barcode")
        /\ HasKey(proj.res.d, "barcodes")
        /\ Get(proj.res.d, "barcodes").elems[1] = Dict(Barcode_json_dict(proj.of.barcode))
        /\ LET original == GetAttr(proj.of.barcode, "format").s
               emitted == GetAttr(Get(proj.res.d, "barcode"), "format").s
           IN  emitted = IF original = BarcodeFormat_CODE128
                         THEN BarcodeFormat_PDF417 ELSE original
        /\ GetAttr(Get(proj.res.d, "barcode"), "message")
              = GetAttr(proj.of.barcode, "message")

AllOptionals == AssignableNames

\* C5: an optional field that was never assigned has no key in the projected JSON,
\* and no key of it carries null.
C5_OmissionLaw ==
    Projected =>
        /\ \A name \in AllOptionals :
              proj.of[name] = None => ~HasKey(proj.res.d, name)
        /\ \A i \in 1..Len(proj.res.d) : dumps(proj.res.d[i].v) # JNull

\* C6 as stated: the descriptor holds both webServiceURL and authenticationToken or
\* neither, and both whenever at least one of the two fields is present.
C6_PairWheneverEitherSet ==
    Projected =>
        /\ HasKey(proj.res.d, "webServiceURL") <=> HasKey(proj.res.d, "authenticationToken")
        /\ (Truthy(proj.of.webServiceURL) \/ Truthy(proj.of.authenticationToken)) =>
              (HasKey(proj.res.d, "webServiceURL") /\ HasKey(proj.res.d, "authenticationToken"))

\* C6 as amended: the descriptor json_dict returns holds both keys exactly when
\* webServiceURL is truthy (the token's key also when the token is empty), and
\* neither key otherwise.
C6_PairFollowsURL ==
    Projected =>
        /\ HasKey(proj.res.d, "webServiceURL") <=> Truthy(proj.of.webServiceURL)
        /\ HasKey(proj.res.d, "authenticationToken") <=> Truthy(proj.of.webServiceURL)
        /\ Truthy(proj.of.webServiceURL) =>
              Get(proj.res.d, "webServiceURL") = proj.of.webServiceURL

C6_Witness ==
    /\ Projected
    /\ Truthy(proj.of.webServiceURL)
    /\ proj.of.authenticationToken = Str("")
    /\ Get(proj.res.d, "authenticationToken") = Str("")

\* C9: each optional other than the legacy barcode and the web-service pair (the
\* twelve of lines 436-459, and barcodes when no legacy barcode is set) is a key of
\* the projected descriptor if and only if its value is truthy, with that value.
C9_TruthyInclusion ==
    (proj.done /\ ~Truthy(proj.of.barcode)) =>
        /\ proj.res.ok
        /\ \A name \in AssignableNames \ {"barcode", "webServiceURL", "authenticationToken"} :
              /\ HasKey(proj.res.d, name) <=> Truthy(proj.of[name])
              /\ HasKey(proj.res.d, name) =>
                    Get(proj.res.d, name) = proj.of[name]

(***************************************************************************)
(* Claims about the field buckets (SpecInfo)                               *)
(***************************************************************************)
\* the Fields the calls made on one bucket build, in the order of the calls
RECURSIVE CallsOn(_, _)
CallsOn(cs, bucket) ==
    IF cs = <<>> THEN <<>>
    ELSE (IF Head(cs).bucket = bucket THEN << Head(cs) >> ELSE <<>>)
            \o CallsOn(Tail(cs), bucket)

BucketNames == {Buckets[i] : i \in 1..Len(Buckets)}

\* C10: after any sequence of add*Field calls each bucket holds exactly the Fields
\* of the calls made on it, in call order (one Field per call, at the end, the other
\* four buckets untouched), and json_dict emits each non-empty bucket as the array of
\* its fields in insertion order and no key for an empty bucket.
C10_BucketsAppendOnlyOrdered ==
    /\ \A b \in BucketNames :
          LET cs == CallsOn(calls, b)
          IN  /\ Len(info[b]) = Len(cs)
              /\ \A i \in 1..Len(cs) :
                    /\ info[b][i].cls = "Field"
                    /\ GetAttr(info[b][i], "key") = Str(cs[i].key)
                    /\ GetAttr(info[b][i], "value") = Str(cs[i].value)
                    /\ GetAttr(info[b][i], "label") = Str(cs[i].label)
    /\ infoJson.done =>
          \A b \in BucketNames :
             LET cs == CallsOn(infoJson.calls, b)
             IN  /\ HasKey(infoJson.d, b) <=> cs # <<>>
                 /\ cs # <<>> =>
                       /\ Get(infoJson.d, b).kind = "list"
                       /\ Len(Get(infoJson.d, b).elems) = Len(cs)
                       /\ \A i \in 1..Len(cs) :
                             /\ Get(Get(infoJson.d, b).elems[i].items, "key") = Str(cs[i].key)
                             /\ Get(infoJson.d, b).elems[i]
                                   = Dict(Field_json_dict(Field(cs[i].key, cs[i].value,
                                                                cs[i].label)))

C10_Witness ==
    /\ infoJson.done
    /\ infoJson.calls = calls
    /\ Len(info.primaryFields) = 2
    /\ GetAttr(info.primaryFields[1], "key") # GetAttr(info.primaryFields[2], "key")
    /\ Len(info.headerFields) = 1
    /\ ~HasKey(infoJson.d, "backFields")

====
